---- MODULE Spec2Model ----
(***************************************************************************)
(* Propagation engine of the mirall sync client                            *)
(* (src/src/mirall/owncloudpropagator.cpp).                                *)
(*                                                                         *)
(* The model has the job tree OwncloudPropagator::start builds from the    *)
(* sorted item list, the event queue through which jobs are started and    *)
(* report finished(status), the leaf jobs with the outcomes of their file  *)
(* system and network calls chosen nondeterministically, and the journal   *)
(* (file records, upload and download resume records).                     *)
(***************************************************************************)
EXTENDS Integers, Sequences, FiniteSets, TLC

(***************************************************************************)
(* Bounds of the model.                                                    *)
(***************************************************************************)
\* most items in the input list of a run
MaxItems == 3
\* most items in the input list of a run that other runs follow
MaxRerunItems == 1
\* most uploads and downloads in one input list
MaxTransfers == 1
\* most runs over one journal, each with a propagator of its own
MaxRuns == 2
\* most chunks hbf_splitlist cuts a file into
MaxChunks == 2
\* most blocks of body a GET delivers
MaxBlocks == 1
\* most times the source file changes under a running upload, per job
MaxSourceChanges == 1
\* most bytes in a file whose contents are compared
MaxFileLen == 2
\* bytes fileEquals reads at a time (16 * 1024 in the source, scaled to MaxFileLen)
BufferSize == 1

(***************************************************************************)
(* Paths are sequences of characters; QString orders them by code unit.    *)
(***************************************************************************)
CharCode(c) ==
    CASE c = "-" -> 45
      [] c = "/" -> 47
      [] c = "P" -> 80
      [] c = "S" -> 83
      [] c = "a" -> 97
      [] c = "b" -> 98
      [] c = "c" -> 99
      [] c = "d" -> 100
      [] c = "e" -> 101
      [] c = "h" -> 104
      [] c = "r" -> 114
      [] c = "x" -> 120
      [] OTHER -> 0

Min(a, b) == IF a < b THEN a ELSE b

\* QString::operator< : code unit order, a proper prefix sorts first
PathLess(p, q) ==
    \/ \E k \in 1..Min(Len(p), Len(q)) :
          /\ \A j \in 1..(k - 1) : p[j] = q[j]
          /\ CharCode(p[k]) < CharCode(q[k])
    \/ /\ Len(p) < Len(q)
       /\ \A j \in 1..Len(p) : p[j] = q[j]

\* QString::startsWith
StartsWith(s, prefix) ==
    /\ Len(prefix) <= Len(s)
    /\ \A j \in 1..Len(prefix) : s[j] = prefix[j]

EmptyPath == << >>
PathA == <<"a">>
PathB == <<"b">>
PathBx == <<"b", "-", "x">>
PathBc == <<"b", "/", "c">>
PathC == <<"c">>
PathP == <<"P">>
PathShared == <<"S", "h", "a", "r", "e", "d">>

\* every path a journal key can take: the item paths and the rename targets
AllPaths == {PathA, PathB, PathBx, PathBc, PathC, PathP, PathShared}

(***************************************************************************)
(* SyncFileItem.  The reconciler hands over one item per path.             *)
(***************************************************************************)
MkItem(file, isDir, instr, dir, target, etag, fileId) ==
    [file |-> file, originalFile |-> file, renameTarget |-> target,
     isDirectory |-> isDir, instruction |-> instr, dir |-> dir,
     modtime |-> 1, etag |-> etag, fileId |-> fileId]

\* SyncFileItem(): the item of the root directory job
NoItem == MkItem(EmptyPath, FALSE, "NONE", "None", EmptyPath, << >>, "")

\* SyncFileItem::isEmpty
ItemIsEmpty(item) == item.file = EmptyPath

Candidates ==
    { MkItem(PathA, FALSE, "REMOVE", "Down", EmptyPath, <<"e1">>, "f1"),
      MkItem(PathA, FALSE, "NEW", "Up", EmptyPath, << >>, ""),
      MkItem(PathA, FALSE, "CONFLICT", "Down", EmptyPath, <<"e1">>, "f1"),
      MkItem(PathA, FALSE, "NEW", "Down", EmptyPath, <<"e3">>, ""),
      MkItem(PathA, FALSE, "RENAME", "Up", PathC, <<"e1">>, "f1"),
      MkItem(PathA, FALSE, "RENAME", "Down", PathC, <<"e1">>, "f1"),
      MkItem(PathA, FALSE, "IGNORE", "None", EmptyPath, <<"e1">>, "f1"),
      MkItem(PathB, TRUE, "REMOVE", "Down", EmptyPath, <<"e1">>, "f1"),
      MkItem(PathB, TRUE, "NEW", "Down", EmptyPath, <<"e1">>, "f1"),
      MkItem(PathB, TRUE, "NEW", "Up", EmptyPath, << >>, ""),
      MkItem(PathB, TRUE, "SYNC", "None", EmptyPath, <<"e1">>, "f1"),
      MkItem(PathBx, TRUE, "REMOVE", "Up", EmptyPath, <<"e1">>, "f1"),
      MkItem(PathBc, FALSE, "REMOVE", "Down", EmptyPath, <<"e1">>, "f1"),
      MkItem(PathBc, TRUE, "REMOVE", "Down", EmptyPath, <<"e1">>, "f1"),
      MkItem(PathBc, FALSE, "SYNC", "Up", EmptyPath, <<"e1">>, "f1"),
      MkItem(PathBc, FALSE, "SYNC", "Down", EmptyPath, <<"e1">>, "f1"),
      MkItem(PathShared, TRUE, "RENAME", "Up", PathP, <<"e1">>, "f1") }

\* an item that is uploaded or downloaded
IsTransfer(item) ==
    ~item.isDirectory /\ item.instruction \in {"NEW", "SYNC", "CONFLICT"}

\* the input lists of at most n items: at most one item per path
ItemSets(n) ==
    { S \in SUBSET Candidates :
        /\ Cardinality(S) <= n
        /\ Cardinality({x \in S : IsTransfer(x)}) <= MaxTransfers
        /\ \A x \in S : \A y \in S : x.file = y.file => x = y }

\* std::sort(items.begin(), items.end()) with SyncFileItem::operator<
RECURSIVE SortItems(_)
SortItems(S) ==
    IF S = {} THEN << >>
    ELSE LET first == CHOOSE x \in S : \A y \in S \ {x} : PathLess(x.file, y.file)
         IN  <<first>> \o SortItems(S \ {first})

(***************************************************************************)
(* OwncloudPropagator::createJob: the kind of leaf job of an item, "None"  *)
(* where it returns 0.                                                     *)
(***************************************************************************)
createJob(item) ==
    CASE item.instruction = "REMOVE" ->
            IF item.dir = "Down" THEN "LocalRemove" ELSE "RemoteRemove"
      [] item.instruction = "NEW" /\ item.isDirectory ->
            IF item.dir = "Down" THEN "LocalMkdir" ELSE "RemoteMkdir"
      [] item.instruction \in {"NEW", "SYNC", "CONFLICT"} /\ ~item.isDirectory ->
            IF item.dir # "Up" THEN "Download" ELSE "Upload"
      [] item.instruction \in {"SYNC", "CONFLICT"} /\ item.isDirectory -> "None"
      [] item.instruction = "RENAME" ->
            IF item.dir = "Up" THEN "RemoteRename" ELSE "LocalRename"
      [] item.instruction = "IGNORE" -> "Ignore"
      [] OTHER -> "None"

(***************************************************************************)
(* Job identifiers: 0 is the root directory job, i > 0 the job of the i-th *)
(* item of the sorted list (a directory job or a leaf job) and -i the      *)
(* firstJob of the directory job i.                                        *)
(***************************************************************************)
RootJob == 0
FirstJobOf(d) == 0 - d

\* QStack::pop while the item is not below the directory on top
RECURSIVE PopDirectories(_, _)
PopDirectories(directories, file) ==
    IF StartsWith(file, directories[Len(directories)].prefix)
    THEN directories
    ELSE PopDirectories(SubSeq(directories, 1, Len(directories) - 1), file)

\* PropagateDirectory::append
Append2(subJobs, d, job) == [subJobs EXCEPT ![d] = Append(@, job)]

\* the body of the foreach over the sorted items
BuildStep(st, i, item) ==
    IF /\ item.instruction = "REMOVE"
       /\ st.removedDirectory # EmptyPath
       /\ StartsWith(item.file, st.removedDirectory)
    THEN st
    ELSE LET dirs == PopDirectories(st.directories, item.file)
             top == dirs[Len(dirs)].job
         IN  IF item.isDirectory
             THEN [st EXCEPT
                     !.directories = Append(dirs, [prefix |-> item.file \o <<"/">>, job |-> i]),
                     !.dirJobs = @ \cup {i},
                     !.firstJob = [@ EXCEPT ![i] = createJob(item)],
                     !.directoriesToRemove =
                         IF item.instruction = "REMOVE" THEN Append(@, i) ELSE @,
                     !.removedDirectory =
                         IF item.instruction = "REMOVE" THEN item.file \o <<"/">> ELSE @,
                     !.subJobs =
                         IF item.instruction = "REMOVE" THEN @ ELSE Append2(@, top, i)]
             ELSE IF createJob(item) # "None"
                  THEN [st EXCEPT !.directories = dirs,
                                  !.leafJobs = @ \cup {i},
                                  !.subJobs = Append2(@, top, i)]
                  ELSE [st EXCEPT !.directories = dirs]

RECURSIVE BuildLoop(_, _, _)
BuildLoop(st, items, i) ==
    IF i > Len(items) THEN st
    ELSE BuildLoop(BuildStep(st, i, items[i]), items, i + 1)

\* the job tree OwncloudPropagator::start builds from the sorted items
BuildJobs(items) ==
    LET n == Len(items)
        st0 == [directories |-> <<[prefix |-> EmptyPath, job |-> RootJob]>>,
                dirJobs |-> {RootJob},
                leafJobs |-> {},
                firstJob |-> [d \in 0..n |-> "None"],
                subJobs |-> [d \in 0..n |-> << >>],
                directoriesToRemove |-> << >>,
                removedDirectory |-> EmptyPath]
        st == BuildLoop(st0, items, 1)
    IN  [st EXCEPT !.subJobs = [@ EXCEPT ![RootJob] = @ \o st.directoriesToRemove]]

(***************************************************************************)
(* Journal (SyncJournalDb) and its records.                                *)
(***************************************************************************)
\* SyncJournalFileRecord(): isValid is "path is not empty"
NoFileRecord == [path |-> EmptyPath, modtime |-> 0, etag |-> << >>, fileId |-> ""]

\* SyncJournalFileRecord(item, localFileName)
SyncJournalFileRecord(item) ==
    [path |-> item.file, modtime |-> item.modtime, etag |-> item.etag,
     fileId |-> item.fileId]

\* SyncJournalDb::setFileRecord
setFileRecord(fr, rec) == [fr EXCEPT ![rec.path] = rec]

\* SyncJournalDb::deleteFileRecord(path, recursively)
deleteFileRecord(fr, path, recursively) ==
    [p \in DOMAIN fr |->
        IF p = path \/ (recursively /\ StartsWith(p, path \o <<"/">>))
        THEN NoFileRecord ELSE fr[p]]

\* the record the journal holds for a path synced by an earlier run
OldFileRecord(p) == [path |-> p, modtime |-> 0, etag |-> <<"e0">>, fileId |-> "f1"]

(***************************************************************************)
(* PropagateItemJob::updateErrorFromSession: the status the job is done    *)
(* with, "NoError" where it returns false.  req is FALSE for a null        *)
(* request; httpCode is the status of the request, errCode the number the  *)
(* session's error string starts with.                                     *)
(***************************************************************************)
NeonCodes ==
    {"NE_OK", "NE_ERROR", "NE_LOOKUP", "NE_AUTH", "NE_PROXYAUTH", "NE_CONNECT",
     "NE_TIMEOUT", "NE_FAILED", "NE_RETRY", "NE_REDIRECT"}

HttpCodes == {0, 200, 404, 405, 500}

\* what a call to the session can end with; only NE_OK and NE_ERROR leave a code
\* that is looked at
NeonResults ==
    { [rc |-> c, code |-> h] : c \in {"NE_OK", "NE_ERROR"}, h \in HttpCodes }
        \cup { [rc |-> c, code |-> 0] : c \in NeonCodes \ {"NE_OK", "NE_ERROR"} }

\* a classifier that stops a job with NormalError whatever the transport failure
updateErrorFromSessionAllNormal(neon_code, req, httpCode, errCode, ignoreHttpCode) ==
    CASE neon_code = "NE_OK" ->
            IF req
            THEN IF httpCode \div 100 = 2 \/ httpCode = ignoreHttpCode
                 THEN "NoError" ELSE "NormalError"
            ELSE IF (errCode >= 200 /\ errCode < 300)
                     \/ (errCode # 0 /\ errCode = ignoreHttpCode)
                 THEN "NoError" ELSE "NormalError"
      [] neon_code = "NE_ERROR" ->
            IF ignoreHttpCode # 0 /\ errCode = ignoreHttpCode
            THEN "NoError" ELSE "NormalError"
      [] OTHER -> "NormalError"

updateErrorFromSession(neon_code, req, httpCode, errCode, ignoreHttpCode) ==
    CASE neon_code = "NE_OK" ->
            IF req
            THEN IF httpCode \div 100 = 2 \/ httpCode = ignoreHttpCode
                 THEN "NoError" ELSE "NormalError"
            ELSE IF (errCode >= 200 /\ errCode < 300)
                     \/ (errCode # 0 /\ errCode = ignoreHttpCode)
                 THEN "NoError" ELSE "NormalError"
      [] neon_code = "NE_ERROR" ->
            IF ignoreHttpCode # 0 /\ errCode = ignoreHttpCode
            THEN "NoError" ELSE "NormalError"
      [] neon_code \in {"NE_LOOKUP", "NE_AUTH", "NE_PROXYAUTH", "NE_CONNECT", "NE_TIMEOUT"} ->
            "FatalError"
      [] OTHER -> "SoftError"

(***************************************************************************)
(* Etag and file id headers of a response.                                 *)
(***************************************************************************)
Quote == "\""
EtagHeaders == { <<Quote, "e2", Quote>>, <<"e2">>, << >> }
ServerFileIds == {"", "f2", "f3"}

\* parseEtag: strips the quotes around the header value
parseEtag(header) ==
    IF header # << >> /\ header[1] = Quote /\ header[Len(header)] = Quote
    THEN SubSeq(header, 2, Len(header) - 1)
    ELSE header

\* what a HEAD request can answer: failed, or the etag and file id headers
NoHead == [ok |-> FALSE, etag |-> << >>, fid |-> ""]
HeadResults ==
    {NoHead} \cup { [ok |-> TRUE, etag |-> e, fid |-> f] : e \in EtagHeaders, f \in ServerFileIds }

\* the HEAD part of PropagateItemJob::updateMTimeAndETag
updateMTimeAndETag(item, head) ==
    IF ~head.ok THEN item
    ELSE [item EXCEPT !.etag = parseEtag(head.etag),
                      !.fileId = IF item.fileId = "" THEN head.fid ELSE @]

\* PropagateItemJob::getFileId
getFileId(item, head) ==
    IF ~head.ok THEN item ELSE [item EXCEPT !.fileId = head.fid]

(***************************************************************************)
(* State.                                                                  *)
(***************************************************************************)
VARIABLES
    runs,           \* calls of OwncloudPropagator::start so far
    items,          \* the sorted items of the current run
    jobs,           \* the job tree of the current run (BuildJobs)
    jobItem,        \* _item of every job
    current,        \* PropagateDirectory::_current
    hasError,       \* PropagateDirectory::_hasError
    queue,          \* queued slot invocations: start of a job, finished of a job
    fileRecords,    \* journal: the file record of every path
    uploadInfo,     \* journal: the upload resume record of every path
    downloadInfo,   \* journal: the download resume record of every path
    tmpFiles,       \* size of every temporary download file, -1 where there is none
    xfer,           \* the upload or download whose start() is waiting for the network
    abortRequested, \* OwncloudPropagator::_abortRequested
    session,        \* the hooks registered on the neon session
    uploadAcked,    \* history: the chunks the server acknowledged, per path
    log             \* history: what happened in this run, in order

transferVars == <<uploadInfo, downloadInfo, tmpFiles, xfer, abortRequested, session, uploadAcked>>

vars == <<runs, items, jobs, jobItem, current, hasError, queue, fileRecords, log,
          uploadInfo, downloadInfo, tmpFiles, xfer, abortRequested, session, uploadAcked>>

\* SyncJournalDb::UploadInfo()
NoUploadInfo == [valid |-> FALSE, chunk |-> 0, transferid |-> << >>, modtime |-> 0]

\* SyncJournalDb::DownloadInfo()
NoDownloadInfo == [valid |-> FALSE, etag |-> << >>, tmpfile |-> << >>]

\* no transfer is under way
NoXfer ==
    [kind |-> "None", job |-> 0, attempts |-> 0, changes |-> 0, start_id |-> 0,
     transfer_id |-> << >>, block_cnt |-> 0, next |-> 0, modtime |-> 0,
     progressInfo |-> NoUploadInfo, tmpFileName |-> << >>, retry |-> 0,
     received |-> 0, range |-> 0 - 1, gets |-> 0]

NoSession == [notifier |-> {}, postHeaders |-> {}]

\* no chunk acknowledged: the pairs <<transfer id, chunk>> the server has taken
NoAcked == {}

\* the names a temporary file of a download can get: ".<name>.~<hex>" beside the file
Hexes == {"1a", "2b"}

RECURSIVE lastIndexOf(_, _)
lastIndexOf(s, c) ==
    IF s = << >> THEN 0 - 1
    ELSE IF s[Len(s)] = c THEN Len(s) - 1
    ELSE lastIndexOf(SubSeq(s, 1, Len(s) - 1), c)

TmpFileName(file, hex) ==
    LET slashPos == lastIndexOf(file, "/")
    IN  SubSeq(file, 1, slashPos + 1) \o <<".">> \o SubSeq(file, slashPos + 2, Len(file))
            \o <<".~", hex>>

TmpNames == { TmpFileName(p, h) : p \in {PathA, PathBc}, h \in Hexes }

StartEv(j) == [type |-> "start", job |-> j, status |-> "None"]
FinishedEv(j, st) == [type |-> "finished", job |-> j, status |-> st]
RecordEv(j) == [type |-> "record", job |-> j, status |-> "None"]
\* ne_move was called for the item of job j
MoveEv(j) == [type |-> "move", job |-> j, status |-> "None"]
\* QFile::rename of the local rename target back to "Shared", and whether it did
LocalRenameEv(j, renamed) ==
    [type |-> "localRename", job |-> j, status |-> IF renamed THEN "Renamed" ELSE "NotRenamed"]

\* the kind of a job: "Directory" or what createJob made
KindOf(j) ==
    IF j < 0 THEN jobs.firstJob[0 - j]
    ELSE IF j \in jobs.leafJobs THEN createJob(items[j])
    ELSE "Directory"

\* the directory job whose proceedNext slot the job's finished is connected to
ParentOf(j) ==
    IF j < 0 THEN 0 - j
    ELSE CHOOSE d \in jobs.dirJobs : \E k \in 1..Len(jobs.subJobs[d]) : jobs.subJobs[d][k] = j

Idle == queue = << >> /\ xfer.kind = "None"

\* the event loop hands out the next queued invocation when start() has returned
QueueHead == queue # << >> /\ xfer.kind = "None"

Init ==
    /\ runs = 0
    /\ items = << >>
    /\ jobs = BuildJobs(<< >>)
    /\ jobItem = [j \in {0} |-> NoItem]
    /\ current = [d \in {0} |-> 0 - 1]
    /\ hasError = [d \in {0} |-> FALSE]
    /\ queue = << >>
    /\ fileRecords = [p \in AllPaths |-> IF p \in {PathC, PathP} THEN NoFileRecord ELSE OldFileRecord(p)]
    /\ log = << >>
    /\ uploadInfo = [p \in AllPaths |-> NoUploadInfo]
    /\ downloadInfo = [p \in AllPaths |-> NoDownloadInfo]
    /\ tmpFiles = [t \in TmpNames |-> 0 - 1]
    /\ xfer = NoXfer
    /\ abortRequested = FALSE
    /\ session = NoSession
    /\ uploadAcked = [p \in AllPaths |-> NoAcked]

(***************************************************************************)
(* OwncloudPropagator::start                                               *)
(***************************************************************************)
StartRunOf(itemSets) ==
    /\ Idle
    /\ \E S \in itemSets :
        LET its == SortItems(S)
            n == Len(its)
        IN  /\ items' = its
            /\ jobs' = BuildJobs(its)
            /\ jobItem' = [j \in (0 - n)..n |->
                             IF j = 0 THEN NoItem ELSE IF j < 0 THEN its[0 - j] ELSE its[j]]
            /\ current' = [d \in 0..n |-> 0 - 1]
            /\ hasError' = [d \in 0..n |-> FALSE]
    /\ runs' = runs + 1
    /\ queue' = <<StartEv(RootJob)>>
    /\ log' = << >>
    /\ abortRequested' = FALSE
    /\ session' = NoSession
    /\ UNCHANGED <<fileRecords, uploadInfo, downloadInfo, tmpFiles, xfer, uploadAcked>>

(***************************************************************************)
(* PropagateDirectory                                                      *)
(***************************************************************************)
StartRun(maxItems) == StartRunOf(ItemSets(maxItems))

\* the one run of a propagator
PropagatorStart ==
    /\ runs = 0
    /\ StartRun(MaxItems)

\* a run of a new propagator over the journal and the files the runs before left
PropagatorRestart ==
    /\ runs < MaxRuns
    /\ StartRun(MaxRerunItems)

\* PropagateDirectory::proceedNext(status) of directory job d, q being the
\* events still queued
proceedNext(d, status, q, lg) ==
    IF status = "FatalError"
    THEN /\ queue' = Append(q, FinishedEv(d, status))
         /\ log' = Append(lg, FinishedEv(d, status))
         /\ UNCHANGED <<current, hasError, fileRecords>>
    ELSE LET err == hasError[d] \/ status = "NormalError"
             cur == current[d] + 1
         IN  /\ hasError' = [hasError EXCEPT ![d] = err]
             /\ current' = [current EXCEPT ![d] = cur]
             /\ IF cur < Len(jobs.subJobs[d])
                THEN /\ queue' = Append(q, StartEv(jobs.subJobs[d][cur + 1]))
                     /\ log' = lg
                     /\ UNCHANGED fileRecords
                ELSE LET st == IF err THEN "NormalError" ELSE "Success"
                         write == ~ItemIsEmpty(jobItem[d]) /\ ~err
                     IN  /\ fileRecords' =
                               IF write
                               THEN setFileRecord(fileRecords, SyncJournalFileRecord(jobItem[d]))
                               ELSE fileRecords
                         /\ queue' = Append(q, FinishedEv(d, st))
                         /\ log' = lg \o (IF write THEN <<RecordEv(d)>> ELSE << >>)
                                      \o <<FinishedEv(d, st)>>

\* PropagateDirectory::start
DirectoryStart ==
    /\ QueueHead
    /\ queue[1].type = "start"
    /\ KindOf(queue[1].job) = "Directory"
    /\ LET d == queue[1].job
           lg == Append(log, StartEv(d))
       IN  IF jobs.firstJob[d] = "None"
           THEN proceedNext(d, "Success", Tail(queue), lg)
           ELSE /\ queue' = Append(Tail(queue), StartEv(FirstJobOf(d)))
                /\ log' = lg
                /\ UNCHANGED <<current, hasError, fileRecords>>
    /\ UNCHANGED <<runs, items, jobs, jobItem>>
    /\ UNCHANGED transferVars

\* the proceedNext slot, invoked for the finished signal of a sub job
ProceedNext ==
    /\ QueueHead
    /\ queue[1].type = "finished"
    /\ queue[1].job # RootJob
    /\ proceedNext(ParentOf(queue[1].job), queue[1].status, Tail(queue), log)
    /\ UNCHANGED <<runs, items, jobs, jobItem>>
    /\ UNCHANGED transferVars

\* the finished signal of the root job, forwarded as OwncloudPropagator::finished
PropagatorFinished ==
    /\ QueueHead
    /\ queue[1].type = "finished"
    /\ queue[1].job = RootJob
    /\ queue' = Tail(queue)
    /\ UNCHANGED <<runs, items, jobs, jobItem, current, hasError, fileRecords, log>>
    /\ UNCHANGED transferVars

(***************************************************************************)
(* Leaf jobs with a single step.  Each result is the sequence of statuses  *)
(* done() is called with, the journal and the item the job leaves, and     *)
(* whether the job called setFileRecord.                                   *)
(***************************************************************************)
Result(statuses, fr, item, wrote) ==
    [statuses |-> statuses, fileRecords |-> fr, item |-> item, wrote |-> wrote]

\* the head of the queue starts a leaf job of this kind
Starts(kind) ==
    /\ QueueHead
    /\ queue[1].type = "start"
    /\ KindOf(queue[1].job) = kind

\* PropagateItemJob::done for every status of the result, after start()
LeafEnd(q, lg, j, r) ==
    /\ queue' = q \o [k \in 1..Len(r.statuses) |-> FinishedEv(j, r.statuses[k])]
    /\ log' = lg \o (IF r.wrote THEN <<RecordEv(j)>> ELSE << >>)
                 \o [k \in 1..Len(r.statuses) |-> FinishedEv(j, r.statuses[k])]
    /\ fileRecords' = r.fileRecords
    /\ jobItem' = [jobItem EXCEPT ![j] = r.item]
    /\ UNCHANGED <<runs, items, jobs, current, hasError>>

\* a job whose start() runs to its end in one step
LeafDone(j, r) ==
    /\ LeafEnd(Tail(queue), Append(log, StartEv(j)), j, r)
    /\ UNCHANGED transferVars

\* PropagateLocalRemove::start
LocalRemoveResult(item, fr, exists, removed) ==
    IF item.isDirectory
    THEN IF exists /\ ~removed
         THEN Result(<<"NormalError">>, fr, item, FALSE)
         ELSE Result(<<"Success">>, deleteFileRecord(fr, item.originalFile, FALSE), item, FALSE)
    ELSE Result((IF exists /\ ~removed THEN <<"NormalError">> ELSE << >>) \o <<"Success">>,
                deleteFileRecord(fr, item.originalFile, FALSE), item, FALSE)

\* removeRecursively takes the temporary files below the directory with it
RemoveTmpFilesBelow(tf, item, exists, removed) ==
    [t \in DOMAIN tf |->
        IF item.isDirectory /\ exists /\ removed /\ StartsWith(t, item.file \o <<"/">>)
        THEN 0 - 1 ELSE tf[t]]

LocalRemoveStart ==
    /\ Starts("LocalRemove")
    /\ LET j == queue[1].job
           item == jobItem[j]
       IN  \E exists \in BOOLEAN, removed \in BOOLEAN :
             \* a directory that holds a temporary file exists
             /\ (item.isDirectory /\ \E t \in TmpNames :
                    tmpFiles[t] >= 0 /\ StartsWith(t, item.file \o <<"/">>)) => exists
             /\ LeafEnd(Tail(queue), Append(log, StartEv(j)), j,
                        LocalRemoveResult(item, fileRecords, exists, removed))
             /\ tmpFiles' = RemoveTmpFilesBelow(tmpFiles, item, exists, removed)
    /\ UNCHANGED <<uploadInfo, downloadInfo, xfer, abortRequested, session, uploadAcked>>

\* PropagateLocalMkdir::start
LocalMkdirResult(item, fr, made) ==
    IF ~made THEN Result(<<"NormalError">>, fr, item, FALSE)
    ELSE Result(<<"Success">>, fr, item, FALSE)

LocalMkdirStart ==
    /\ Starts("LocalMkdir")
    /\ \E made \in BOOLEAN :
          LeafDone(queue[1].job, LocalMkdirResult(jobItem[queue[1].job], fileRecords, made))

\* a RemoteRemove that takes a 404 for an error
RemoteRemoveNo404(item, fr, res) ==
    LET err == updateErrorFromSession(res.rc, FALSE, 0, res.code, 0)
    IN  IF err # "NoError" THEN Result(<<err>>, fr, item, FALSE)
        ELSE Result(<<"Success">>,
                    deleteFileRecord(fr, item.originalFile, item.isDirectory), item, FALSE)

\* PropagateRemoteRemove::start
RemoteRemoveResult(item, fr, res) ==
    LET err == updateErrorFromSession(res.rc, FALSE, 0, res.code, 404)
    IN  IF err # "NoError" THEN Result(<<err>>, fr, item, FALSE)
        ELSE Result(<<"Success">>,
                    deleteFileRecord(fr, item.originalFile, item.isDirectory), item, FALSE)

RemoteRemoveStart ==
    /\ Starts("RemoteRemove")
    /\ \E res \in NeonResults :
          LeafDone(queue[1].job, RemoteRemoveResult(jobItem[queue[1].job], fileRecords, res))

\* PropagateRemoteMkdir::start
RemoteMkdirResult(item, fr, res) ==
    LET err == updateErrorFromSession(res.rc, FALSE, 0, res.code, 405)
    IN  IF err # "NoError" THEN Result(<<err>>, fr, item, FALSE)
        ELSE Result(<<"Success">>, fr, item, FALSE)

RemoteMkdirStart ==
    /\ Starts("RemoteMkdir")
    /\ \E res \in NeonResults :
          LeafDone(queue[1].job, RemoteMkdirResult(jobItem[queue[1].job], fileRecords, res))

\* PropagateLocalRename::start; the result of QFile::rename is not looked at
LocalRenameResult(item, fr, renamed) ==
    LET it == [item EXCEPT !.instruction = "DELETED"]
        record == [SyncJournalFileRecord(it) EXCEPT !.path = it.renameTarget]
    IN  Result(<<"Success">>,
               setFileRecord(deleteFileRecord(fr, it.originalFile, FALSE), record),
               it, TRUE)

LocalRenameStart ==
    /\ Starts("LocalRename")
    /\ \E renamed \in BOOLEAN :
          LeafDone(queue[1].job,
                   LocalRenameResult(jobItem[queue[1].job], fileRecords, renamed))

\* a RemoteRename without the check for "Shared"
RemoteRenameOfShared(item, fr, res, head) ==
    LET moved == updateErrorFromSession(res.rc, FALSE, 0, res.code, 0)
        it == IF item.file = item.renameTarget
              THEN IF ~item.isDirectory THEN updateMTimeAndETag(item, head) ELSE item
              ELSE updateMTimeAndETag(item, head)
        record == [SyncJournalFileRecord(it) EXCEPT !.path = it.renameTarget]
    IN  IF item.file # item.renameTarget /\ moved # "NoError"
        THEN Result(<<moved>>, fr, item, FALSE)
        ELSE Result(<<"Success">>,
                    setFileRecord(deleteFileRecord(fr, it.originalFile, FALSE), record),
                    it, TRUE)

\* PropagateRemoteRename::start
RemoteRenameResult(item, fr, res, head) ==
    LET moved == updateErrorFromSession(res.rc, FALSE, 0, res.code, 0)
        it == IF item.file = item.renameTarget
              THEN IF ~item.isDirectory THEN updateMTimeAndETag(item, head) ELSE item
              ELSE updateMTimeAndETag(item, head)
        record == [SyncJournalFileRecord(it) EXCEPT !.path = it.renameTarget]
    IN  IF item.file # item.renameTarget /\ item.file = PathShared
        THEN Result(<<"NormalError">>, fr, item, FALSE)
        ELSE IF item.file # item.renameTarget /\ moved # "NoError"
        THEN Result(<<moved>>, fr, item, FALSE)
        ELSE Result(<<"Success">>,
                    setFileRecord(deleteFileRecord(fr, it.originalFile, FALSE), record),
                    it, TRUE)

\* the calls start() makes before it is done: the local rename back to "Shared"
\* of the refusal, else ne_move unless the parent was renamed already
RemoteRenameCalls(j, item, renamed) ==
    IF item.file = item.renameTarget THEN << >>
    ELSE IF item.file = PathShared THEN <<LocalRenameEv(j, renamed)>>
    ELSE <<MoveEv(j)>>

RemoteRenameStart ==
    /\ Starts("RemoteRename")
    /\ \E res \in NeonResults :
          \E head \in (IF updateErrorFromSession(res.rc, FALSE, 0, res.code, 0) = "NoError"
                        THEN HeadResults ELSE {NoHead}) :
             \E renamed \in BOOLEAN :
                LET j == queue[1].job
                IN  /\ LeafEnd(Tail(queue),
                               Append(log, StartEv(j)) \o RemoteRenameCalls(j, jobItem[j], renamed),
                               j, RemoteRenameResult(jobItem[j], fileRecords, res, head))
                    /\ UNCHANGED transferVars

\* a start() that returns without a call of done
IgnoreNeverDone(item, fr) == Result(<< >>, fr, item, FALSE)

\* PropagateIgnoreJob::start
IgnoreResult(item, fr) == Result(<<"Success">>, fr, item, FALSE)

IgnoreStart ==
    /\ Starts("Ignore")
    /\ LeafDone(queue[1].job, IgnoreResult(jobItem[queue[1].job], fileRecords))

(***************************************************************************)
(* PropagateUploadFile.  start() waits for the network in hbf_transfer,    *)
(* once per chunk; the steps in between are UploadChunk.                   *)
(***************************************************************************)
\* the retries after HBF_SOURCE_FILE_CHANGE
UploadRetries == 30

FileModtimes == {1, 2}
TransferEtags == { <<"e2">> }

\* start() goes on waiting: the job has not finished
LeafContinue(q, lg, j, item) ==
    /\ queue' = q
    /\ log' = lg
    /\ jobItem' = [jobItem EXCEPT ![j] = item]
    /\ UNCHANGED <<runs, items, jobs, current, hasError, fileRecords>>

\* a resume that does not look at the modtime of the record
ResumeFromAnyModtime(item, progressInfo, fresh) ==
    IF progressInfo.valid
    THEN [start_id |-> progressInfo.chunk, transfer_id |-> progressInfo.transferid]
    ELSE [start_id |-> 0, transfer_id |-> fresh]

\* where the transfer starts: the resume record counts if its modtime is the item's
ResumeFrom(item, progressInfo, fresh) ==
    IF progressInfo.valid /\ progressInfo.modtime = item.modtime
    THEN [start_id |-> progressInfo.chunk, transfer_id |-> progressInfo.transferid]
    ELSE [start_id |-> 0, transfer_id |-> fresh]

\* a callback that leaves the resume record alone
chunk_finished_cb_NoRecord(ui, file, trans, chunk) == ui

\* PropagateUploadFile::chunk_finished_cb
chunk_finished_cb(ui, file, trans, chunk) ==
    IF trans.block_cnt > 1
    THEN [ui EXCEPT ![file] = [valid |-> TRUE, chunk |-> chunk + 1,
                               transferid |-> trans.transfer_id,
                               modtime |-> trans.modtime]]
    ELSE ui

\* a file-id handling that takes the id the transfer reports over the item's
UploadFileIdOfTransfer(item, fid, head) ==
    IF fid = "" THEN (IF item.fileId = "" THEN getFileId(item, head) ELSE item)
    ELSE [item EXCEPT !.fileId = fid]

\* the file id after the transfer: the transfer's, else the one a HEAD gets
UploadFileId(item, fid, head) ==
    IF item.fileId = ""
    THEN IF fid = "" THEN getFileId(item, head) ELSE [item EXCEPT !.fileId = fid]
    ELSE item

\* what the transfer and the HEAD of getFileId can report for the file id
FileIdResults(item) ==
    IF item.fileId # "" THEN {[fid |-> f, head |-> NoHead] : f \in ServerFileIds}
    ELSE {[fid |-> f, head |-> NoHead] : f \in ServerFileIds \ {""}}
            \cup {[fid |-> "", head |-> h] : h \in {NoHead} \cup
                      {[ok |-> TRUE, etag |-> << >>, fid |-> f] : f \in ServerFileIds}}

\* a failed transfer that writes the record of the file all the same
UploadFailedWritesRecord(item, fr, state) ==
    Result(<<"NormalError">>, setFileRecord(fr, SyncJournalFileRecord(item)), item, TRUE)

\* what makes hbf_transfer end with a state other than HBF_SUCCESS and
\* HBF_SOURCE_FILE_CHANGE: a call to the session that did not end with NE_OK
TransferFailures == {"NE_ERROR", "NE_CONNECT", "NE_TIMEOUT", "NE_FAILED"}

\* the journal and the status after a transfer that ended with an error other
\* than a source file change that is retried; state is only put into the message
UploadFailedResult(item, fr, state) == Result(<<"NormalError">>, fr, item, FALSE)

\* the journal and the status after a transfer that ended with HBF_SUCCESS
UploadSuccessResult(item, fr, accepted, etag, head) ==
    LET it == IF accepted THEN [item EXCEPT !.etag = etag]
              ELSE updateMTimeAndETag(item, head)
    IN  Result(<<"Success">>, setFileRecord(fr, SyncJournalFileRecord(it)), it, TRUE)

\* one round of the do loop up to hbf_transfer
UploadAttempt(j, item, attempts, changes, q, lg, splitOk, cnt, mtime) ==
    LET progressInfo == uploadInfo[item.file]
        from == ResumeFrom(item, progressInfo, <<runs, j, attempts>>)
    IN  /\ session' = [session EXCEPT !.notifier = {j}]
        /\ IF splitOk
           THEN /\ xfer' = [NoXfer EXCEPT !.kind = "Upload", !.job = j,
                                          !.attempts = attempts, !.changes = changes,
                                          !.start_id = from.start_id,
                                          !.transfer_id = from.transfer_id,
                                          !.block_cnt = cnt, !.next = from.start_id,
                                          !.modtime = mtime,
                                          !.progressInfo = progressInfo]
                /\ LeafContinue(q, lg, j, item)
           ELSE /\ xfer' = NoXfer
                /\ \E f \in FileIdResults(item) :
                      LeafEnd(q, lg, j,
                              UploadFailedResult(UploadFileId(item, f.fid, f.head),
                                                 fileRecords, "HBF_SPLITLIST_FAIL"))
        /\ UNCHANGED <<uploadInfo, downloadInfo, tmpFiles, abortRequested, uploadAcked>>

\* start() up to the first hbf_transfer, of a file that splits into one of
\* counts chunks
UploadStartOf(counts) ==
    /\ Starts("Upload")
    /\ LET j == queue[1].job
       IN  \E opened \in BOOLEAN :
             IF ~opened
             THEN LeafDone(j, Result(<<"NormalError">>, fileRecords, jobItem[j], FALSE))
             ELSE \E splitOk \in BOOLEAN, cnt \in counts, mtime \in FileModtimes :
                    UploadAttempt(j, jobItem[j], 0, 0, Tail(queue), Append(log, StartEv(j)),
                                  splitOk, cnt, mtime)

UploadStart == UploadStartOf(1..MaxChunks)

\* the transfer ended with an error: the rest of start()
UploadFailed(j, item, state) ==
    /\ xfer' = NoXfer
    /\ LeafEnd(queue, log, j, UploadFailedResult(item, fileRecords, state))
    /\ UNCHANGED <<uploadInfo, downloadInfo, tmpFiles, abortRequested, session, uploadAcked>>

\* hbf_transfer at the next chunk: aborted, sent and acknowledged, failed, or
\* the source file has changed
\* the retry of start(): attempts++ < 30
RetryAlways(attempts) == TRUE

RetryAllowed(attempts) == attempts < UploadRetries

UploadChunkOf(changes, counts) ==
    /\ xfer.kind = "Upload"
    /\ xfer.next < xfer.block_cnt
    /\ LET j == xfer.job
           file == jobItem[j].file
           \* the item after the file-id handling that follows hbf_transfer
           handled == { UploadFileId(jobItem[j], f.fid, f.head) :
                           f \in FileIdResults(jobItem[j]) }
       IN  IF abortRequested
           THEN \E item \in handled : UploadFailed(j, item, "HBF_USER_ABORTED")
           ELSE \/ /\ uploadInfo' = chunk_finished_cb(uploadInfo, file, xfer, xfer.next)
                   /\ uploadAcked' =
                        [uploadAcked EXCEPT ![file] =
                            @ \cup {<<xfer.transfer_id, xfer.next>>}]
                   /\ xfer' = [xfer EXCEPT !.next = @ + 1]
                   /\ UNCHANGED <<runs, items, jobs, jobItem, current, hasError, queue,
                                  fileRecords, log, downloadInfo, tmpFiles,
                                  abortRequested, session>>
                \/ \E item \in handled, state \in TransferFailures :
                      UploadFailed(j, item, state)
                \/ /\ xfer.changes < changes
                   /\ \E item \in handled :
                         IF RetryAllowed(xfer.attempts)
                         THEN \E splitOk \in BOOLEAN, cnt \in counts,
                                 mtime \in FileModtimes :
                                UploadAttempt(j, item, xfer.attempts + 1, xfer.changes + 1,
                                              queue, log, splitOk, cnt, mtime)
                         ELSE UploadFailed(j, item, "HBF_SOURCE_FILE_CHANGE")

\* the source file changes up to MaxSourceChanges times while it is sent
UploadChunk == UploadChunkOf(MaxSourceChanges, 1..MaxChunks)

\* hbf_transfer returned HBF_SUCCESS: the rest of start()
UploadTransferEnd ==
    /\ xfer.kind = "Upload"
    /\ xfer.next >= xfer.block_cnt
    /\ LET j == xfer.job
           file == jobItem[j].file
       IN  /\ \E f \in FileIdResults(jobItem[j]), accepted \in BOOLEAN :
                 \E etag \in (IF accepted THEN TransferEtags ELSE {<< >>}),
                    head \in (IF accepted THEN {NoHead} ELSE HeadResults) :
                   LeafEnd(queue, log, j,
                           UploadSuccessResult(UploadFileId(jobItem[j], f.fid, f.head),
                                               fileRecords, accepted, etag, head))
           /\ uploadInfo' = [uploadInfo EXCEPT ![file] = NoUploadInfo]
           /\ uploadAcked' = [uploadAcked EXCEPT ![file] = NoAcked]
    /\ session' = [session EXCEPT !.notifier = {}]
    /\ xfer' = NoXfer
    /\ UNCHANGED <<downloadInfo, tmpFiles, abortRequested>>

(***************************************************************************)
(* PropagateDownloadFile.  start() waits for the network in                *)
(* ne_request_dispatch, which calls content_reader for every block of the  *)
(* body (DownloadBlock) and then returns (DownloadResponse).               *)
(***************************************************************************)
\* a GET that timed out is sent again while ++retry < 3
DownloadRetries == 3

\* a download that always names a new temporary file
DownloadTmpFileNew(item, progressInfo, hex) == TmpFileName(item.file, hex)

\* the temporary file start() writes to: the one of a resume record with the
\* item's etag, else a new name
DownloadTmpFile(item, progressInfo, hex) ==
    IF progressInfo.valid /\ progressInfo.etag = item.etag /\ progressInfo.tmpfile # << >>
    THEN progressInfo.tmpfile
    ELSE TmpFileName(item.file, hex)

\* a download that takes no resume record for stale
StaleDownloadNever(item, progressInfo) == FALSE

\* a resume record with another etag: its temporary file is removed
StaleDownload(item, progressInfo) ==
    progressInfo.valid /\ progressInfo.etag # item.etag

\* the offset of the Range header of the GET, -1 where there is none
GetRange(size) == IF size > 0 THEN size ELSE 0 - 1

\* QFile::remove
RemoveTmpFile(tf, name) ==
    [t \in DOMAIN tf |-> IF t = name THEN 0 - 1 ELSE tf[t]]

\* a new GET is created and dispatched; progressInfo is the resume record
\* start() found
DispatchGet(j, name, retry, tf, gets, progressInfo) ==
    /\ xfer' = [NoXfer EXCEPT !.kind = "Download", !.job = j, !.tmpFileName = name,
                              !.retry = retry, !.range = GetRange(tf[name]),
                              !.gets = gets, !.progressInfo = progressInfo]
    /\ session' = [notifier |-> {j}, postHeaders |-> session.postHeaders \cup {j}]

DownloadStart ==
    /\ Starts("Download")
    /\ LET j == queue[1].job
           item == jobItem[j]
           progressInfo == downloadInfo[item.file]
           stale == StaleDownload(item, progressInfo)
           tf1 == IF stale THEN RemoveTmpFile(tmpFiles, progressInfo.tmpfile) ELSE tmpFiles
           di1 == IF stale THEN [downloadInfo EXCEPT ![item.file] = NoDownloadInfo]
                  ELSE downloadInfo
       IN  \E hex \in Hexes, opened \in BOOLEAN :
             LET name == DownloadTmpFile(item, progressInfo, hex)
                 tf2 == [tf1 EXCEPT ![name] = IF @ < 0 THEN 0 ELSE @]
             IN  IF ~opened
                 THEN /\ LeafEnd(Tail(queue), Append(log, StartEv(j)), j,
                                 Result(<<"NormalError">>, fileRecords, item, FALSE))
                      /\ tmpFiles' = tf1
                      /\ downloadInfo' = di1
                      /\ UNCHANGED <<xfer, session>>
                 ELSE /\ LeafContinue(Tail(queue), Append(log, StartEv(j)), j, item)
                      /\ tmpFiles' = tf2
                      /\ downloadInfo' =
                            [di1 EXCEPT ![item.file] =
                                [valid |-> TRUE, etag |-> item.etag, tmpfile |-> name]]
                      /\ DispatchGet(j, name, 0, tf2, 1, progressInfo)
    /\ UNCHANGED <<uploadInfo, abortRequested, uploadAcked>>

\* the bytes and the contents of the files that are compared
Bytes == {0, 1}
FileContents == UNION { [1..n -> Bytes] : n \in 0..MaxFileLen }

\* QFile::read(buffer, BufferSize) at position pos: the bytes read
ReadAt(c, pos) == SubSeq(c, pos + 1, Min(Len(c), pos + BufferSize))

\* the do loop of fileEquals, both files at position pos
RECURSIVE CompareFrom(_, _, _)
CompareFrom(c1, c2, pos) ==
    LET b1 == ReadAt(c1, pos)
        b2 == ReadAt(c2, pos)
        r == Len(b1)
    IN  IF Len(b2) # r THEN FALSE
        ELSE IF r <= 0 THEN TRUE
        ELSE IF b1 # b2 THEN FALSE
        ELSE CompareFrom(c1, c2, pos + r)

\* a comparison that looks at the sizes of the files only
fileEqualsBySize(c1, c2, opened1, opened2) ==
    opened1 /\ opened2 /\ Len(c1) = Len(c2)

\* fileEquals(fn1, fn2) for files of contents c1 and c2 that can be opened or not
fileEquals(c1, c2, opened1, opened2) ==
    IF ~opened1 \/ ~opened2 THEN FALSE
    ELSE IF Len(c1) # Len(c2) THEN FALSE
    ELSE CompareFrom(c1, c2, 0)

\* what fileEquals can answer for the local file and the temporary file
FileEqualsResults ==
    { fileEquals(c1, c2, o1, o2) :
        c1 \in FileContents, c2 \in FileContents, o1 \in BOOLEAN, o2 \in BOOLEAN }

\* isConflict of PropagateDownloadFile::start: the local file is renamed aside
DownloadIsConflict(item, equal) == item.instruction = "CONFLICT" /\ ~equal

\* the rest of start() after a GET that succeeded
DownloadPublishResult(item, fr, etagHeader, equal, backedUp, renamed) ==
    LET it == [item EXCEPT !.etag = parseEtag(etagHeader)]
        isConflict == DownloadIsConflict(it, equal)
    IN  IF isConflict /\ ~backedUp THEN Result(<<"NormalError">>, fr, it, FALSE)
        ELSE IF ~renamed THEN Result(<<"NormalError">>, fr, it, FALSE)
        ELSE Result(<<IF isConflict THEN "Conflict" ELSE "Success">>,
                    setFileRecord(fr, SyncJournalFileRecord(it)), it, TRUE)

\* a failed download that clears its resume record whatever its temporary file holds
DownloadFailedClearsRecord(j, err) ==
    /\ LeafEnd(queue, log, j, Result(<<err>>, fileRecords, jobItem[j], FALSE))
    /\ tmpFiles' = tmpFiles
    /\ downloadInfo' = [downloadInfo EXCEPT ![jobItem[j].file] = NoDownloadInfo]
    /\ xfer' = NoXfer
    /\ session' = [notifier |-> {}, postHeaders |-> session.postHeaders \ {j}]

\* the rest of start() after a GET that failed: the job is done with err
DownloadFailed(j, err) ==
    LET item == jobItem[j]
        empty == tmpFiles[xfer.tmpFileName] = 0
    IN  /\ LeafEnd(queue, log, j, Result(<<err>>, fileRecords, item, FALSE))
        /\ tmpFiles' = IF empty THEN RemoveTmpFile(tmpFiles, xfer.tmpFileName) ELSE tmpFiles
        /\ downloadInfo' = IF empty THEN [downloadInfo EXCEPT ![item.file] = NoDownloadInfo]
                           ELSE downloadInfo
        /\ xfer' = NoXfer
        /\ session' = [notifier |-> {}, postHeaders |-> session.postHeaders \ {j}]

\* content_reader: a block of the body arrives
DownloadBlock ==
    /\ xfer.kind = "Download"
    /\ xfer.received < MaxBlocks
    /\ IF abortRequested
       THEN DownloadFailed(xfer.job, updateErrorFromSession("NE_ERROR", TRUE, 200, 0, 0))
       ELSE /\ tmpFiles' = [tmpFiles EXCEPT ![xfer.tmpFileName] = @ + 1]
            /\ xfer' = [xfer EXCEPT !.received = @ + 1]
            /\ UNCHANGED <<runs, items, jobs, jobItem, current, hasError, queue,
                           fileRecords, log, downloadInfo, session>>
    /\ UNCHANGED <<uploadInfo, abortRequested, uploadAcked>>

\* ne_request_dispatch returns
DownloadResponse ==
    /\ xfer.kind = "Download"
    /\ LET j == xfer.job
           item == jobItem[j]
       IN  \E res \in NeonResults :
             \* the body is read of a 2xx response only
             /\ (xfer.received > 0 /\ res.rc = "NE_OK") => res.code = 200
             \* a request that was dispatched with NE_OK has the status of its response
             /\ res.rc = "NE_OK" => res.code # 0
             /\ IF res.rc = "NE_TIMEOUT" /\ xfer.retry + 1 < DownloadRetries
                THEN /\ DispatchGet(j, xfer.tmpFileName, xfer.retry + 1, tmpFiles,
                                    xfer.gets + 1, xfer.progressInfo)
                     /\ UNCHANGED <<runs, items, jobs, jobItem, current, hasError, queue,
                                    fileRecords, log, downloadInfo, tmpFiles>>
                ELSE LET err == updateErrorFromSession(res.rc, TRUE, res.code, 0, 0)
                     IN  IF err # "NoError"
                         THEN DownloadFailed(j, err)
                         ELSE \E etagHeader \in EtagHeaders, equal \in FileEqualsResults,
                                 backedUp \in BOOLEAN, renamed \in BOOLEAN :
                                LET r == DownloadPublishResult(item, fileRecords, etagHeader,
                                                               equal, backedUp, renamed)
                                IN  /\ LeafEnd(queue, log, j, r)
                                    /\ tmpFiles' = IF r.wrote
                                                   THEN RemoveTmpFile(tmpFiles, xfer.tmpFileName)
                                                   ELSE tmpFiles
                                    /\ downloadInfo' =
                                          IF r.wrote
                                          THEN [downloadInfo EXCEPT ![item.file] = NoDownloadInfo]
                                          ELSE downloadInfo
                                    /\ xfer' = NoXfer
                                    /\ session' = [notifier |-> {},
                                                   postHeaders |-> session.postHeaders \ {j}]
    /\ UNCHANGED <<uploadInfo, abortRequested, uploadAcked>>

\* the abort flag is set from outside while a transfer runs
RequestAbort ==
    /\ xfer.kind # "None"
    /\ ~abortRequested
    /\ abortRequested' = TRUE
    /\ UNCHANGED <<runs, items, jobs, jobItem, current, hasError, queue, fileRecords, log,
                   uploadInfo, downloadInfo, tmpFiles, xfer, session, uploadAcked>>

\* what a propagator does once it is started
Run ==
    \/ DirectoryStart
    \/ ProceedNext
    \/ PropagatorFinished
    \/ LocalRemoveStart
    \/ LocalMkdirStart
    \/ RemoteRemoveStart
    \/ RemoteMkdirStart
    \/ LocalRenameStart
    \/ RemoteRenameStart
    \/ IgnoreStart
    \/ UploadStart
    \/ UploadChunk
    \/ UploadTransferEnd
    \/ DownloadStart
    \/ DownloadBlock
    \/ DownloadResponse
    \/ RequestAbort

Next == PropagatorStart \/ Run

\* a run over one file to upload, small enough for a single chunk, whose source
\* changes as often as it is sent
UploadSets == { {x} : x \in {c \in Candidates : createJob(c) = "Upload"} }

PropagatorStartUpload ==
    /\ runs = 0
    /\ StartRunOf(UploadSets)

UploadStartOneChunk == UploadStartOf({1})

UploadChunkRetried == UploadChunkOf(UploadRetries + 1, {1})

NextRetry ==
    \/ PropagatorStartUpload
    \/ DirectoryStart
    \/ ProceedNext
    \/ PropagatorFinished
    \/ UploadStartOneChunk
    \/ UploadChunkRetried
    \/ UploadTransferEnd
    \/ RequestAbort

NextRerun == PropagatorRestart \/ Run

\* one run over a list of up to MaxItems items
Spec == Init /\ [][Next]_vars

\* up to MaxRuns runs over lists of up to MaxRerunItems items
SpecRerun == Init /\ [][NextRerun]_vars

\* one run over one upload with up to UploadRetries + 1 changes of the source
SpecRetry == Init /\ [][NextRetry]_vars

(***************************************************************************)
(* Reading the history of a run.                                           *)
(***************************************************************************)
\* the positions of the log at which job j started or emitted finished
StartsOf(j) == {k \in 1..Len(log) : log[k].type = "start" /\ log[k].job = j}
FinishesOf(j) == {k \in 1..Len(log) : log[k].type = "finished" /\ log[k].job = j}

\* the leaf jobs of the tree: the jobs of the files and the firstJobs
LeafJobs ==
    jobs.leafJobs \cup {FirstJobOf(d) : d \in {e \in jobs.dirJobs : jobs.firstJob[e] # "None"}}

\* start() of the job is still waiting for the network
InFlight(j) == xfer.kind # "None" /\ xfer.job = j

\* job j has emitted finished before position k of the log
FinishedBefore(j, k) == \E m \in FinishesOf(j) : m < k

\* the sub jobs of a directory job as a set, and with its firstJob
SubJobsOf(d) == {jobs.subJobs[d][k] : k \in 1..Len(jobs.subJobs[d])}
BelowOf(d) ==
    SubJobsOf(d) \cup (IF jobs.firstJob[d] # "None" THEN {FirstJobOf(d)} ELSE {})

\* the directory jobs that enclose job j
RECURSIVE Enclosing(_)
Enclosing(j) ==
    IF j = RootJob THEN {}
    ELSE IF j \in SubJobsOf(RootJob) THEN {RootJob}
    ELSE {ParentOf(j)} \cup Enclosing(ParentOf(j))

\* the run is over: every queued invocation has been handled
RunOver == runs > 0 /\ Idle

\* the removal job of a directory item: the firstJob of the directory job of a
\* directory item with instruction REMOVE
DirectoryRemovals ==
    {FirstJobOf(d) : d \in {e \in jobs.dirJobs \ {RootJob} : items[e].instruction = "REMOVE"}}

\* item i lies under the directory item d
Under(i, d) == StartsWith(items[i].file, items[d].file \o <<"/">>)

(***************************************************************************)
(* C1: every leaf job that has started and is not waiting for the network  *)
(* any more has emitted finished exactly once.                             *)
(***************************************************************************)
C1_FinishedExactlyOnce ==
    \A j \in LeafJobs :
        (StartsOf(j) # {} /\ ~InFlight(j)) => Cardinality(FinishesOf(j)) = 1

(***************************************************************************)
(* C2: once a job has finished with FatalError no job is started and no    *)
(* directory job writes its file record any more, every enclosing          *)
(* directory job that finishes finishes with FatalError, and when the run  *)
(* is over the root job has finished with FatalError.                      *)
(***************************************************************************)
C2_FatalStopsTheRun ==
    \A k \in 1..Len(log) :
        (log[k].type = "finished" /\ log[k].status = "FatalError") =>
            /\ \A m \in (k + 1)..Len(log) :
                  /\ log[m].type # "start"
                  /\ ~(log[m].type = "record" /\ log[m].job \in Enclosing(log[k].job))
                  /\ (log[m].type = "finished" /\ log[m].job \in Enclosing(log[k].job))
                        => log[m].status = "FatalError"
            /\ RunOver => \E m \in FinishesOf(RootJob) : log[m].status = "FatalError"

(***************************************************************************)
(* C3: a directory job that finishes with a status other than FatalError   *)
(* does so when all of its sub jobs have finished, with NormalError if its *)
(* firstJob or one of its sub jobs finished with NormalError and with      *)
(* Success otherwise; and a run in which no job finished with FatalError   *)
(* ends with every directory job finished.                                 *)
(***************************************************************************)
C3_NormalErrorContinues ==
    /\ \A d \in jobs.dirJobs : \A k \in FinishesOf(d) :
          log[k].status # "FatalError" =>
              /\ \A c \in SubJobsOf(d) : FinishedBefore(c, k)
              /\ log[k].status =
                    IF \E c \in BelowOf(d) : \E m \in FinishesOf(c) :
                          m < k /\ log[m].status = "NormalError"
                    THEN "NormalError" ELSE "Success"
    /\ (RunOver /\ \A k \in 1..Len(log) : log[k].status # "FatalError") =>
          \A d \in jobs.dirJobs : StartsOf(d) # {} => FinishesOf(d) # {}

(***************************************************************************)
(* C4: below a directory job the firstJob has finished before a sub job    *)
(* starts, the sub jobs start in the order they were appended in, and a    *)
(* sub job starts only when the sub job before it has finished.            *)
(***************************************************************************)
C4_OneAtATimeInOrder ==
    \A d \in jobs.dirJobs :
        /\ jobs.firstJob[d] # "None" =>
              \A c \in SubJobsOf(d) : \A k \in StartsOf(c) : FinishedBefore(FirstJobOf(d), k)
        /\ \A n \in 2..Len(jobs.subJobs[d]) :
              \A k \in StartsOf(jobs.subJobs[d][n]) :
                  /\ \E m \in StartsOf(jobs.subJobs[d][n - 1]) : m < k
                  /\ FinishedBefore(jobs.subJobs[d][n - 1], k)

(***************************************************************************)
(* C5: the removal job of a directory item starts when every leaf job that *)
(* is not the removal of a directory has finished, and the removals of     *)
(* directories start in the order of their items in the sorted list.       *)
(***************************************************************************)
C5_DirectoryRemovalsLast ==
    \A r \in DirectoryRemovals : \A k \in StartsOf(r) :
        /\ \A j \in LeafJobs \ DirectoryRemovals : FinishedBefore(j, k)
        /\ \A r2 \in DirectoryRemovals :
              (0 - r2) < (0 - r) => \E m \in StartsOf(r2) : m < k

(***************************************************************************)
(* C6: an item with instruction REMOVE that lies under a directory item    *)
(* with instruction REMOVE has no job: no leaf job and no directory job.   *)
(***************************************************************************)
C6_RemovedDescendantsHaveNoJob ==
    \A i \in 1..Len(items) : \A d \in 1..Len(items) :
        (/\ items[i].instruction = "REMOVE"
         /\ items[d].instruction = "REMOVE" /\ items[d].isDirectory
         /\ Under(i, d))
            => i \notin jobs.leafJobs \cup jobs.dirJobs

(***************************************************************************)
(* C7: the removal job of a directory starts when the removal jobs of all  *)
(* of its descendants that have a job have finished.                       *)
(***************************************************************************)
C7_DescendantRemovalsFirst ==
    \A r \in DirectoryRemovals : \A k \in StartsOf(r) :
        \A i \in 1..Len(items) :
            (items[i].instruction = "REMOVE" /\ Under(i, 0 - r)) =>
                /\ i \in jobs.leafJobs => FinishedBefore(i, k)
                /\ i \in jobs.dirJobs => FinishedBefore(FirstJobOf(i), k)


\* the last thing that happened in the run is that job j emitted finished(st)
JustFinished(j, st) == log # << >> /\ log[Len(log)] = FinishedEv(j, st)

\* the journal holds the record of the item of job j: under the rename target
\* for a rename, under the path of the item otherwise
HoldsRecordOf(j) ==
    LET item == jobItem[j]
        path == IF KindOf(j) \in {"LocalRename", "RemoteRename"}
                THEN item.renameTarget ELSE item.file
        rec == fileRecords[path]
    IN  /\ rec.path = path
        /\ rec.etag = item.etag
        /\ rec.fileId = item.fileId
        /\ rec.modtime = item.modtime

\* the moment the journal is looked at for job j: when a directory creation
\* has finished with Success and its directory job has finished too, and for
\* every other job right after it has finished with Success
SettledWithSuccess(j) ==
    IF KindOf(j) \in {"LocalMkdir", "RemoteMkdir"}
    THEN /\ \E k \in FinishesOf(j) : log[k].status = "Success"
         /\ FinishesOf(ParentOf(j)) # {}
    ELSE JustFinished(j, "Success")

(***************************************************************************)
(* C8: after a leaf job of an item that is not IGNORE has finished with    *)
(* Success, the journal holds a record of the path of the item with the    *)
(* etag, the file id and the modtime of the item, or no record of the path *)
(* when the item is a REMOVE; a directory creation whose directory has a   *)
(* failing child included.                                                 *)
(***************************************************************************)
C8_LeafSuccessHasRecord ==
    \A j \in LeafJobs :
        (KindOf(j) # "Ignore" /\ SettledWithSuccess(j)) =>
            IF KindOf(j) \in {"LocalRemove", "RemoteRemove"}
            THEN fileRecords[jobItem[j].file] = NoFileRecord
            ELSE HoldsRecordOf(j)

\* the same for every job but the directory creations
C8_ButMkdir ==
    \A j \in LeafJobs :
        (KindOf(j) \notin {"Ignore", "LocalMkdir", "RemoteMkdir"} /\ SettledWithSuccess(j)) =>
            IF KindOf(j) \in {"LocalRemove", "RemoteRemove"}
            THEN fileRecords[jobItem[j].file] = NoFileRecord
            ELSE HoldsRecordOf(j)

(***************************************************************************)
(* C9: a job that has called setFileRecord finishes right after the call   *)
(* with Success or Conflict, and never finishes with NormalError,          *)
(* SoftError or FatalError.                                                *)
(***************************************************************************)
C9_RecordOnlyOnSuccess ==
    \A k \in 1..Len(log) :
        log[k].type = "record" =>
            /\ k < Len(log)
            /\ log[k + 1].type = "finished"
            /\ log[k + 1].job = log[k].job
            /\ \A m \in FinishesOf(log[k].job) : log[m].status \in {"Success", "Conflict"}

\* a job has written its record in a run in which another job has failed
C9_Witness ==
    /\ \E k \in 1..Len(log) : log[k].type = "record" /\ log[k].job \in LeafJobs
    /\ \E k \in 1..Len(log) : log[k].type = "record" /\ log[k].job \in jobs.dirJobs
    /\ \E k \in 1..Len(log) :
          log[k].type = "finished" /\ log[k].status \in {"NormalError", "SoftError", "FatalError"}

(***************************************************************************)
(* C10: a transfer of an upload that finds a valid resume record with the  *)
(* modtime of the item starts at the chunk of the record, which is the     *)
(* first chunk the server has not acknowledged under the transfer id of    *)
(* the record, and goes on under that transfer id; a transfer that finds   *)
(* no valid record, or one with another modtime, starts at chunk 0 under a *)
(* transfer id that is not the one of the record.                          *)
(***************************************************************************)
C10_UploadResumesAtStoredChunk ==
    xfer.kind = "Upload" =>
        LET pi == xfer.progressInfo
            file == jobItem[xfer.job].file
        IN  /\ IF pi.valid /\ pi.modtime = jobItem[xfer.job].modtime
               THEN /\ xfer.start_id = pi.chunk
                    /\ xfer.transfer_id = pi.transferid
               ELSE /\ xfer.start_id = 0
                    /\ pi.valid => xfer.transfer_id # pi.transferid
            /\ \A c \in 0..(MaxChunks + 1) :
                  <<xfer.transfer_id, c>> \in uploadAcked[file] <=> c < xfer.next

\* a later run has taken up an interrupted upload of two chunks at its second chunk
C10_Witness ==
    /\ runs = 2
    /\ xfer.kind = "Upload"
    /\ xfer.progressInfo.valid
    /\ xfer.progressInfo.modtime = jobItem[xfer.job].modtime
    /\ xfer.start_id = 1
    /\ xfer.block_cnt = 2
    /\ xfer.next = 2

\* the job whose transfer is under way is an upload / a download
Uploading == xfer.kind = "Upload"
Downloading == xfer.kind = "Download"

\* job j is an upload or a download
IsTransferJob(j) == j \in LeafJobs /\ KindOf(j) \in {"Upload", "Download"}

\* the resume record the journal holds for the path of job j is valid
ResumeRecordValid(j) ==
    IF KindOf(j) = "Upload" THEN uploadInfo[jobItem[j].file].valid
    ELSE downloadInfo[jobItem[j].file].valid

FoundDownloadInfo == xfer.progressInfo

\* the running download has sent its first GET and no block has come in yet
AtFirstGet == Downloading /\ xfer.gets = 1 /\ xfer.received = 0

(***************************************************************************)
(* C12: a download that found a valid resume record with the etag of its   *)
(* item writes to the temporary file the record names, and its first GET   *)
(* carries a Range header that starts at the size of that file if the file *)
(* is not empty.                                                           *)
(***************************************************************************)
C12_DownloadReusesTmpFile ==
    (Downloading /\ FoundDownloadInfo.valid
        /\ FoundDownloadInfo.etag = jobItem[xfer.job].etag) =>
            /\ xfer.tmpFileName = FoundDownloadInfo.tmpfile
            /\ AtFirstGet =>
                  /\ tmpFiles[xfer.tmpFileName] >= 0
                  /\ tmpFiles[xfer.tmpFileName] > 0 => xfer.range = tmpFiles[xfer.tmpFileName]
                  /\ tmpFiles[xfer.tmpFileName] = 0 => xfer.range = 0 - 1

\* a later run has taken up the temporary file of an interrupted download
C12_Witness ==
    /\ runs = 2
    /\ AtFirstGet
    /\ FoundDownloadInfo.valid
    /\ FoundDownloadInfo.etag = jobItem[xfer.job].etag
    /\ xfer.tmpFileName = FoundDownloadInfo.tmpfile
    /\ xfer.range = 1

(***************************************************************************)
(* C13: a download that found a valid resume record with another etag than *)
(* that of its item has removed the temporary file of the record and       *)
(* replaced the record, writes to a temporary file it has named and        *)
(* created itself, and sends its first GET without a Range header.         *)
(***************************************************************************)
C13_StaleDownloadDiscarded ==
    (Downloading /\ FoundDownloadInfo.valid
        /\ FoundDownloadInfo.etag # jobItem[xfer.job].etag) =>
            /\ \E hex \in Hexes : xfer.tmpFileName = TmpFileName(jobItem[xfer.job].file, hex)
            /\ FoundDownloadInfo.tmpfile # xfer.tmpFileName =>
                  tmpFiles[FoundDownloadInfo.tmpfile] < 0
            /\ downloadInfo[jobItem[xfer.job].file] =
                  [valid |-> TRUE, etag |-> jobItem[xfer.job].etag,
                   tmpfile |-> xfer.tmpFileName]
            /\ AtFirstGet => (tmpFiles[xfer.tmpFileName] = 0 /\ xfer.range = 0 - 1)

\* a later run downloads another version of a file than the one an interrupted
\* download left a part of
C13_Witness ==
    /\ runs = 2
    /\ AtFirstGet
    /\ FoundDownloadInfo.valid
    /\ FoundDownloadInfo.etag # jobItem[xfer.job].etag
    /\ FoundDownloadInfo.tmpfile # xfer.tmpFileName

\* a step of the transfer under way in which it finds the abort flag set:
\* hbf_transfer asks _user_want_abort before a chunk, content_reader looks at
\* the flag when a block has come in
AbortedStep == abortRequested /\ (UploadChunk \/ DownloadBlock)

\* the job of the transfer under way finishes in this step, with a failure status
FinishesFailed ==
    /\ xfer.kind # "None"
    /\ xfer'.kind = "None"
    /\ log' # log
    /\ log'[Len(log')] \in {FinishedEv(xfer.job, st) :
                              st \in {"NormalError", "SoftError", "FatalError"}}

\* with the abort flag set no chunk is acknowledged and no temporary file grows
StoppedByAbort ==
    (abortRequested /\ xfer.kind # "None") =>
        /\ \A p \in AllPaths : uploadAcked'[p] \subseteq uploadAcked[p]
        /\ \A t \in TmpNames : tmpFiles'[t] <= tmpFiles[t]

(***************************************************************************)
(* C14: once the abort flag is set the transfer under way goes no further, *)
(* and when its job finishes the resume record it had written is valid and *)
(* unchanged: for a download also when its temporary file is still empty.  *)
(***************************************************************************)
C14_AbortKeepsResumeRecord ==
    [][/\ StoppedByAbort
       /\ AbortedStep =>
             LET file == jobItem[xfer.job].file
             IN  /\ FinishesFailed
                 /\ IF Uploading
                    THEN uploadInfo'[file] = uploadInfo[file]
                    ELSE /\ downloadInfo'[file] = downloadInfo[file]
                         /\ downloadInfo'[file].valid]_vars

(***************************************************************************)
(* C14, as the code has it: once the abort flag is set the transfer under  *)
(* way goes no further, and when its job finishes the resume record of an  *)
(* upload is unchanged, the resume record of a download whose temporary    *)
(* file holds data is valid and unchanged like the file, and the resume    *)
(* record of a download whose temporary file is empty is cleared and the   *)
(* file removed.                                                           *)
(***************************************************************************)
C14_AbortKeepsResumeRecordOfData ==
    [][/\ StoppedByAbort
       /\ AbortedStep =>
             LET file == jobItem[xfer.job].file
                 tmp == xfer.tmpFileName
             IN  /\ FinishesFailed
                 /\ IF Uploading
                    THEN uploadInfo'[file] = uploadInfo[file]
                    ELSE IF tmpFiles[tmp] > 0
                    THEN /\ downloadInfo'[file] = downloadInfo[file]
                         /\ downloadInfo'[file].valid
                         /\ tmpFiles'[tmp] = tmpFiles[tmp]
                    ELSE /\ downloadInfo'[file] = NoDownloadInfo
                         /\ tmpFiles'[tmp] < 0]_vars

\* an aborted download has finished and left its resume record and the data it
\* had received
C14_Witness ==
    /\ abortRequested
    /\ \E j \in LeafJobs :
          /\ KindOf(j) = "Download"
          /\ JustFinished(j, "NormalError")
          /\ downloadInfo[jobItem[j].file].valid
          /\ tmpFiles[downloadInfo[jobItem[j].file].tmpfile] > 0

\* the temporary files a download of the path can have made
TmpFilesOf(file) == {TmpFileName(file, hex) : hex \in Hexes}

(***************************************************************************)
(* C15: when a download has finished with NormalError, SoftError or        *)
(* FatalError no empty temporary file of its path is left, and, where its  *)
(* temporary file was empty, no valid resume record of its path: whether   *)
(* the GET failed, the rename of the conflict backup or the rename that    *)
(* publishes the file.                                                     *)
(***************************************************************************)
C15_NoEmptyTmpFileAfterFailure ==
    \A j \in LeafJobs :
        (KindOf(j) = "Download"
            /\ \E st \in {"NormalError", "SoftError", "FatalError"} : JustFinished(j, st)) =>
                /\ \A t \in TmpFilesOf(jobItem[j].file) : tmpFiles[t] # 0
                /\ downloadInfo[jobItem[j].file].valid =>
                      tmpFiles[downloadInfo[jobItem[j].file].tmpfile] > 0

\* the status a download whose GET succeeded finishes with
PublishStatus(item, equal, backedUp, renamed) ==
    DownloadPublishResult(item, fileRecords, << >>, equal, backedUp, renamed).statuses

DeleteOutcomes ==
    { res \in NeonResults :
        /\ res.rc = "NE_OK" => res.code = 200
        /\ res.rc = "NE_ERROR" => res.code # 200 }

\* the DELETE was answered 2xx or 404
DeletedOrGone(res) ==
    \/ res.rc = "NE_OK"
    \/ res.rc = "NE_ERROR" /\ res.code = 404

(***************************************************************************)
(* C17: a RemoteRemove whose DELETE is answered 2xx or 404 finishes with   *)
(* Success and deletes the file record of the original path of its item;   *)
(* after any other outcome of the DELETE it finishes with an error status  *)
(* and leaves the journal as it was.                                       *)
(***************************************************************************)
C17_RemoteRemoveTolerates404 ==
    /\ Starts("RemoteRemove") =>
          LET item == jobItem[queue[1].job]
          IN  \A res \in DeleteOutcomes :
                LET r == RemoteRemoveResult(item, fileRecords, res)
                IN  IF DeletedOrGone(res)
                    THEN /\ r.statuses = <<"Success">>
                         /\ r.fileRecords[item.originalFile] = NoFileRecord
                         /\ \A p \in AllPaths :
                               ~(p = item.originalFile \/ StartsWith(p, item.originalFile \o <<"/">>))
                                   => r.fileRecords[p] = fileRecords[p]
                    ELSE /\ r.statuses \in {<<"NormalError">>, <<"SoftError">>, <<"FatalError">>}
                         /\ r.fileRecords = fileRecords
    /\ \A j \in LeafJobs :
          (KindOf(j) = "RemoteRemove" /\ JustFinished(j, "Success")) =>
              fileRecords[jobItem[j].originalFile] = NoFileRecord

\* a RemoteRemove has finished with Success and the record of its path is gone
C17_Witness ==
    \E j \in LeafJobs :
        /\ KindOf(j) = "RemoteRemove"
        /\ JustFinished(j, "Success")
        /\ fileRecords[jobItem[j].originalFile] = NoFileRecord

\* the item of a renamed top-level folder "Shared"
SharedRefusal(item) == item.file = PathShared /\ item.renameTarget # item.file

\* the event is in the history of the run
Logged(ev) == \E k \in 1..Len(log) : log[k] = ev

\* a RemoteRename of "Shared": whatever the server would answer, start() ends
\* with NormalError and the journal it found
SharedRefusalResult ==
    (Starts("RemoteRename") /\ SharedRefusal(jobItem[queue[1].job])) =>
        LET j == queue[1].job
        IN  \A res \in NeonResults : \A head \in HeadResults \cup {NoHead} :
              LET r == RemoteRenameResult(jobItem[j], fileRecords, res, head)
              IN  /\ r.statuses = <<"NormalError">>
                  /\ r.fileRecords = fileRecords
                  /\ \A renamed \in BOOLEAN :
                        RemoteRenameCalls(j, jobItem[j], renamed) = <<LocalRenameEv(j, renamed)>>

\* a finished RemoteRename of "Shared": no MOVE, NormalError, the records of the
\* old and the new name as they were
SharedRefusalDone(j) ==
    /\ ~Logged(MoveEv(j))
    /\ \A k \in FinishesOf(j) : log[k].status = "NormalError"
    /\ fileRecords[PathShared] = OldFileRecord(PathShared)
    /\ fileRecords[jobItem[j].renameTarget] = NoFileRecord

RefusedRenames ==
    { j \in LeafJobs :
        KindOf(j) = "RemoteRename" /\ SharedRefusal(jobItem[j]) /\ FinishesOf(j) # {} }

(***************************************************************************)
(* C18: a RemoteRename of the top-level folder "Shared" to another name    *)
(* issues no MOVE, has renamed the local folder back to "Shared", finishes *)
(* with NormalError and leaves the journal unchanged.                      *)
(***************************************************************************)
C18_SharedRenamedBack ==
    /\ SharedRefusalResult
    /\ \A j \in RefusedRenames :
          SharedRefusalDone(j) /\ Logged(LocalRenameEv(j, TRUE))

(***************************************************************************)
(* C18, as the code has it: the job asks for the local rename back to      *)
(* "Shared", which the file system may refuse; with either answer it       *)
(* issues no MOVE, finishes with NormalError and leaves the journal        *)
(* unchanged.                                                              *)
(***************************************************************************)
C18_SharedRenameRefused ==
    /\ SharedRefusalResult
    /\ \A j \in RefusedRenames :
          /\ SharedRefusalDone(j)
          /\ Logged(LocalRenameEv(j, TRUE)) \/ Logged(LocalRenameEv(j, FALSE))

\* the rename of "Shared" was refused and the local folder renamed back
C18_Witness ==
    \E j \in RefusedRenames :
        /\ Logged(LocalRenameEv(j, TRUE))
        /\ Logged(FinishedEv(j, "NormalError"))
        /\ fileRecords[PathShared] = OldFileRecord(PathShared)

\* the file-id handling of start() and updateMTimeAndETag keep a file id the
\* item has, whatever the transfer and the HEAD report
KeepsFileId(item) ==
    item.fileId # "" =>
        /\ \A fid \in ServerFileIds : \A head \in HeadResults :
              /\ UploadFileId(item, fid, head).fileId = item.fileId
              /\ updateMTimeAndETag(UploadFileId(item, fid, head), head).fileId = item.fileId
        /\ \A head \in HeadResults : updateMTimeAndETag(item, head).fileId = item.fileId

\* no step of the run changes a file id that is not empty
FileIdKept ==
    runs' = runs =>
        \A j \in DOMAIN jobItem :
            jobItem[j].fileId # "" =>
                j \in DOMAIN jobItem' /\ jobItem'[j].fileId = jobItem[j].fileId

(***************************************************************************)
(* C19: once the file id of an item is not empty, no step of a job (the    *)
(* file-id handling of the upload, getFileId, updateMTimeAndETag) replaces *)
(* it, whatever file id the server reports afterwards.                     *)
(***************************************************************************)
C19_FileIdWriteOnce ==
    /\ [](\A j \in DOMAIN jobItem : KeepsFileId(jobItem[j]))
    /\ [][FileIdKept]_vars

\* an upload of an item that had the file id f1 is over: the server reported
\* another id or none, and the item and its record still have f1
C19_Witness ==
    \E j \in LeafJobs :
        /\ KindOf(j) = "Upload"
        /\ JustFinished(j, "Success")
        /\ jobItem[j].fileId = "f1"
        /\ "f1" \notin ServerFileIds
        /\ fileRecords[jobItem[j].file].fileId = "f1"

\* the jobs whose callbacks the session would call
HookedJobs == session.notifier \cup session.postHeaders

(***************************************************************************)
(* C20: when an upload or a download job has finished, with whatever       *)
(* status, no hook it installed (status notifier, post-headers reader      *)
(* installer) is still registered on the session.                          *)
(***************************************************************************)
C20_NoHookAfterFinish ==
    \A j \in LeafJobs :
        (IsTransferJob(j) /\ FinishesOf(j) # {}) => j \notin HookedJobs

\* the result codes of the transport, one that the switch does not name included
TransportCodes == NeonCodes \cup {"NE_OTHER"}

\* the codes a caller has ignored: none, 404, 405
IgnoredCodes == {0, 404, 405}

\* the statuses a request that was dispatched can have
RequestStatuses == HttpCodes \ {0}

\* the jobs whose start() ends with what the classifier did
ClassifiedJobs == { j \in LeafJobs : KindOf(j) \in {"RemoteRemove", "RemoteMkdir", "RemoteRename"} }

(***************************************************************************)
(* C21: for every result code of the transport, status and ignored code    *)
(* the classifier goes on without finishing the job exactly when the       *)
(* result is NE_OK with a 2xx status or the ignored status, or NE_ERROR    *)
(* with an error string that starts with the ignored code; otherwise it    *)
(* stops the job, finished once: NormalError for NE_OK with another status *)
(* and for other NE_ERRORs, FatalError for lookup, auth, proxy-auth,       *)
(* connect and timeout failures, SoftError for every remaining code.       *)
(***************************************************************************)
C21_ErrorClassification ==
    /\ (\E j \in ClassifiedJobs : QueueHead /\ queue[1] = StartEv(j)) =>
          \A neon_code \in TransportCodes : \A req \in BOOLEAN :
             \A httpCode \in RequestStatuses : \A errCode \in HttpCodes :
                \A ignoreHttpCode \in IgnoredCodes :
                   LET status == IF req THEN httpCode ELSE errCode
                       ignored(code) == ignoreHttpCode # 0 /\ code = ignoreHttpCode
                       fatal == {"NE_LOOKUP", "NE_AUTH", "NE_PROXYAUTH", "NE_CONNECT",
                                 "NE_TIMEOUT"}
                   IN  updateErrorFromSession(neon_code, req, httpCode, errCode, ignoreHttpCode) =
                          IF neon_code = "NE_OK"
                          THEN IF status \in 200..299 \/ ignored(status)
                               THEN "NoError" ELSE "NormalError"
                          ELSE IF neon_code = "NE_ERROR"
                          THEN IF ignored(errCode) THEN "NoError" ELSE "NormalError"
                          ELSE IF neon_code \in fatal THEN "FatalError"
                          ELSE "SoftError"
    /\ \A j \in ClassifiedJobs :
          /\ Cardinality(FinishesOf(j)) <= 1
          /\ \A k \in FinishesOf(j) :
                log[k].status \in {"Success", "NormalError", "FatalError", "SoftError"}

\* a job was stopped by the classifier with SoftError, and one with FatalError
C21_Witness ==
    /\ \E j \in ClassifiedJobs : Logged(FinishedEv(j, "SoftError"))
    /\ \E j \in ClassifiedJobs : Logged(FinishedEv(j, "FatalError")) \/ Logged(FinishedEv(j, "NormalError"))

(***************************************************************************)
(* C22: an upload whose chunk transfer fails for a reason other than a     *)
(* change of the source file finishes with the status the error            *)
(* classifier gives that outcome of the transport: FatalError for lookup,  *)
(* auth, connect and timeout failures, SoftError for precondition-failed,  *)
(* retry and redirect, NormalError otherwise.                              *)
(***************************************************************************)
C22_UploadFailureClassified ==
    (Uploading /\ xfer.next < xfer.block_cnt /\ ~abortRequested) =>
        \A state \in TransferFailures :
            UploadFailedResult(jobItem[xfer.job], fileRecords, state).statuses =
                <<updateErrorFromSession(state, FALSE, 0, 0, 0)>>

MaxLiveItems == 2

PropagatorStartLive ==
    /\ runs = 0
    /\ StartRunOf(ItemSets(MaxLiveItems))

NextLive == PropagatorStartLive \/ Run \/ UploadChunkRetried

\* the event loop delivers every queued call, and hbf_transfer and
\* ne_request_dispatch return
SpecLive == Init /\ [][NextLive]_vars /\ WF_vars(Run \/ UploadChunkRetried)

\* the run is over: nothing is queued or under way, every job that was started
\* has emitted finished, and so has the root job
Terminated ==
    /\ RunOver
    /\ \A j \in DOMAIN jobItem : StartsOf(j) # {} => FinishesOf(j) # {}
    /\ FinishesOf(RootJob) # {}

(***************************************************************************)
(* C24: whatever the transport and the file system answer (timeouts and    *)
(* changes of the source file every time, abort), the run terminates:      *)
(* every job that was started emits finished, and so does the root job.    *)
(***************************************************************************)
C24_RunTerminates == (runs = 1) ~> Terminated

\* a run with an upload that was sent again and again has ended
C24_Witness ==
    /\ Terminated
    /\ \E j \in LeafJobs : KindOf(j) \in {"Upload", "Download"} /\ FinishesOf(j) # {}
    /\ Len(items) = MaxLiveItems

(***************************************************************************)
(* C25: a LocalRemove deletes the file record of the original path of its  *)
(* item only when the file or directory was removed or was not there; when *)
(* the removal fails the job finishes with NormalError and the record is   *)
(* still in the journal.                                                   *)
(***************************************************************************)
C25_LocalRemoveKeepsRecordOnFailure ==
    Starts("LocalRemove") =>
        LET item == jobItem[queue[1].job]
        IN  \A exists \in BOOLEAN, removed \in BOOLEAN :
              LET r == LocalRemoveResult(item, fileRecords, exists, removed)
              IN  IF exists /\ ~removed
                  THEN /\ r.statuses = <<"NormalError">>
                       /\ r.fileRecords = fileRecords
                  ELSE /\ r.statuses = <<"Success">>
                       /\ r.fileRecords[item.originalFile] = NoFileRecord

(***************************************************************************)
(* C26: a directory job finishes with Success, and writes the file record  *)
(* of the item of its directory, only if its firstJob and all of its sub   *)
(* jobs finished with Success or Conflict; a sub job that finished with    *)
(* SoftError prevents both.                                                *)
(***************************************************************************)
C26_DirectorySuccessNeedsCleanChildren ==
    \A d \in jobs.dirJobs :
        (Logged(FinishedEv(d, "Success")) \/ Logged(RecordEv(d))) =>
            \A c \in BelowOf(d) : \A m \in FinishesOf(c) :
                log[m].status \in {"Success", "Conflict"}

(***************************************************************************)
(* C27: the chunks of an upload are read from one version of the source    *)
(* file: the transfer that follows a change of the source file starts at   *)
(* chunk 0 and does not go on from the chunk an earlier transfer wrote to  *)
(* the resume record for the content the file had before.                  *)
(***************************************************************************)
C27_RetrySendsFromChunkZero ==
    [][(Uploading /\ Uploading' /\ xfer'.attempts = xfer.attempts + 1) =>
          /\ xfer'.start_id = 0
          /\ xfer'.next = 0
          /\ \A c \in 0..MaxChunks : <<xfer'.transfer_id, c>> \notin uploadAcked'[jobItem[xfer.job].file]]_vars

(***************************************************************************)
(* C28: every item that gets a job and whose path lies under a directory   *)
(* item D that is not removed has its job in the subtree of the directory  *)
(* job of D, not below an ancestor of D, also when the name of a sibling   *)
(* such as "D-x" sorts between "D" and "D/child".  The removals of         *)
(* directories, which start() appends to the root job, are left aside.     *)
(***************************************************************************)
C28_DescendantsInSubtree ==
    \A d \in 1..Len(items) : \A i \in 1..Len(items) :
        (/\ items[d].isDirectory
         /\ items[d].instruction # "REMOVE"
         /\ StartsWith(items[i].file, items[d].file \o <<"/">>)
         /\ ~(items[i].isDirectory /\ items[i].instruction = "REMOVE")
         /\ i \in jobs.leafJobs \cup jobs.dirJobs) =>
            d \in Enclosing(i)

(***************************************************************************)
(* C29: a LocalRename finishes with Success, deletes the file record of    *)
(* the old path and writes one for renameTarget only if the local rename   *)
(* was done or the path is renameTarget already; when the rename fails the *)
(* job does not finish with Success and the journal is unchanged.          *)
(***************************************************************************)
C29_LocalRenameNeedsRename ==
    Starts("LocalRename") =>
        LET item == jobItem[queue[1].job]
        IN  \A renamed \in BOOLEAN :
              LET r == LocalRenameResult(item, fileRecords, renamed)
              IN  (item.file # item.renameTarget /\ ~renamed) =>
                      /\ \A k \in 1..Len(r.statuses) : r.statuses[k] # "Success"
                      /\ r.fileRecords = fileRecords

====
